---------------------------- MODULE Spec2Model ----------------------------
(* Model of src/meme_agent.py: the MemeFinder class (catalogue, persistent     *)
(* Chroma collection, the two matchers) driven by the demo loop of __main__.   *)
(*                                                                             *)
(* Strings that the code parses (the LLM reply, the collection ids) are        *)
(* sequences of one-character strings; descriptions and queries are atoms of   *)
(* Texts. A pandas cell is Str(t) or NaN. A Python dict is a TLA+ record whose *)
(* DOMAIN is the dict's key set.                                               *)
EXTENDS Integers, Sequences, FiniteSets, TLC

VARIABLES
    chroma_db,   \* the persistent collection "memes" under data/chroma_db
    meme_df,     \* self.meme_df of the running process (<<>> when none runs)
    use_llm,     \* self.use_llm
    has_client,  \* whether __init__ created self.client
    pc,          \* position of the process: down, ready, returned, raised
    last         \* the last call: its inputs and what came back

vars == <<chroma_db, meme_df, use_llm, has_client, pc, last>>

-----------------------------------------------------------------------------
(* Bounds of the model                                                         *)

MaxCatalogue == 2

MaxReplyLen == 3

MaxTopK == 2

-----------------------------------------------------------------------------
(* pandas cells                                                                *)

Texts == {"", "cat", "pet"}

Str(t) == [na |-> FALSE, s |-> t]

NaN == [na |-> TRUE, s |-> "nan"]

notna(cell) == ~cell.na

fillna(cell) == IF cell.na THEN Str("") ELSE cell

FillnaDescription(df) ==
    [i \in 1..Len(df) |->
        [filename |-> df[i].filename, description |-> fillna(df[i].description)]]

Entries ==
    { [filename |-> "a.png", description |-> Str("cat")],
      [filename |-> "b.png", description |-> NaN],
      [filename |-> "c.png", description |-> Str("")] }

\* The CSV files a process may find at start: every table of at most
\* MaxCatalogue rows, one row per image file.
Catalogues ==
    { c \in UNION { [1..n -> Entries] : n \in 0..MaxCatalogue } :
        \A i, j \in 1..Len(c) : c[i].filename = c[j].filename => i = j }

\* DataFrame.iloc[idx]: a negative position counts from the end; a position
\* outside the frame raises IndexError.
Iloc(df, idx) ==
    IF idx >= 0 /\ idx < Len(df) THEN [ok |-> TRUE, row |-> df[idx + 1]]
    ELSE IF idx < 0 /\ idx >= -Len(df) THEN [ok |-> TRUE, row |-> df[Len(df) + idx + 1]]
    ELSE [ok |-> FALSE, row |-> [filename |-> "", description |-> NaN]]

-----------------------------------------------------------------------------
(* str / int / re on character sequences                                       *)

DigitChars == <<"0", "1", "2", "3", "4", "5", "6", "7", "8", "9">>

IsDigit(c) == \E d \in 1..10 : DigitChars[d] = c

DigitVal(c) == (CHOOSE d \in 1..10 : DigitChars[d] = c) - 1

RECURSIVE int(_)
int(s) ==
    IF Len(s) = 0 THEN 0
    ELSE 10 * int(SubSeq(s, 1, Len(s) - 1)) + DigitVal(s[Len(s)])

RECURSIVE str(_)
str(n) ==
    IF n < 10 THEN <<DigitChars[n + 1]>>
    ELSE str(n \div 10) \o <<DigitChars[(n % 10) + 1]>>

\* re.findall(r'\d+', text): the maximal runs of digits, left to right.
RECURSIVE FindallScan(_, _, _, _)
FindallScan(text, i, run, acc) ==
    IF i > Len(text)
    THEN IF Len(run) > 0 THEN Append(acc, run) ELSE acc
    ELSE IF IsDigit(text[i])
         THEN FindallScan(text, i + 1, Append(run, text[i]), acc)
         ELSE FindallScan(text, i + 1, <<>>,
                          IF Len(run) > 0 THEN Append(acc, run) ELSE acc)

findall_digits(text) == FindallScan(text, 1, <<>>, <<>>)

\* s.split(sep): the pieces of s between occurrences of the character sep.
RECURSIVE SplitScan(_, _, _, _, _)
SplitScan(s, sep, i, piece, acc) ==
    IF i > Len(s) THEN Append(acc, piece)
    ELSE IF s[i] = sep
         THEN SplitScan(s, sep, i + 1, <<>>, Append(acc, piece))
         ELSE SplitScan(s, sep, i + 1, Append(piece, s[i]), acc)

split(s, sep) == SplitScan(s, sep, 1, <<>>, <<>>)

\* Variant: ids numbered from 1 instead of from 0.
MemeId_fromOne(i) == <<"m", "e", "m", "e", "_">> \o str(i + 1)

\* f"meme_{i}"
MemeId(i) == <<"m", "e", "m", "e", "_">> \o str(i)

\* int(id.split('_')[1])
MemeIdOrdinal(id) == int(split(id, "_")[2])

-----------------------------------------------------------------------------
(* The sentence-embedding model and cosine similarity                          *)

\* self.model.encode: a fixed, deterministic map from text to a vector.
Encode(t) ==
    CASE t = ""    -> <<0, 1>>
      [] t = "cat" -> <<3, 0>>
      [] t = "pet" -> <<2, 1>>

Dot(a, b) == a[1] * b[1] + a[2] * b[2]

\* The cosine of two vectors with non-negative components, carried exactly as
\* its square num/den (the float itself is not representable).
Cosine(a, b) == [num |-> Dot(a, b) * Dot(a, b), den |-> Dot(a, a) * Dot(b, b)]

\* Chroma's cosine distance 1 - cos, carried as 1 - cos^2 (same order).
CosineDistance(a, b) ==
    [num |-> Cosine(a, b).den - Cosine(a, b).num, den |-> Cosine(a, b).den]

RatLeq(x, y) == x.num * y.den <= y.num * x.den


-----------------------------------------------------------------------------
(* The Chroma collection                                                       *)

count(db) == Len(db)

\* collection.add(embeddings, documents, ids, metadatas) over the rows of df.
CollectionRows(df) ==
    [i \in 1..Len(df) |->
        [id        |-> MemeId(i - 1),
         embedding |-> Encode(df[i].description.s),
         document  |-> df[i].description.s,
         metadata  |-> [filename |-> df[i].filename]]]

Min(a, b) == IF a <= b THEN a ELSE b

\* collection.query(query_embeddings=[emb], n_results=n): one list of hits for
\* the one query embedding, the nearest first; rows at equal distance come in
\* either order, so the answer is one of a set.
QueryResults(db, emb, n) ==
    LET m == Min(n, Len(db))
        dist(i) == CosineDistance(emb, db[i].embedding)
        Ranked == { h \in [1..m -> 1..Len(db)] :
                      /\ \A j, k \in 1..m : h[j] = h[k] => j = k
                      /\ \A j, k \in 1..m : j < k => RatLeq(dist(h[j]), dist(h[k]))
                      /\ \A j \in 1..m : \A i \in 1..Len(db) :
                            (\A k \in 1..m : h[k] # i) => RatLeq(dist(h[j]), dist(i)) }
    IN { [ids       |-> << [j \in 1..m |-> db[h[j]].id] >>,
          distances |-> << [j \in 1..m |-> dist(h[j])] >>,
          metadatas |-> << [j \in 1..m |-> db[h[j]].metadata] >>] : h \in Ranked }

-----------------------------------------------------------------------------
(* Results and outcomes of a call                                              *)

NoHit == <<>>

Returned(result, hit) == [kind |-> "returned", result |-> result, exc |-> "", hit |-> hit]

Raised(exc, hit) == [kind |-> "raised", result |-> [raised |-> exc], exc |-> exc, hit |-> hit]

\* Variant: the failure result also carries a (null) filename key.
NoMatchResult_withFilename == [error |-> <<"No matching memes found">>, filename |-> "None"]

NoMatchResult == [error |-> <<"No matching memes found">>]

SimilarityResult(meme, distance) ==
    [filename |-> meme.filename,
     description |-> meme.description,
     similarity_score |-> distance]

LLMResult(meme, similarity) ==
    [filename |-> meme.filename,
     description |-> meme.description,
     similarity_score |-> similarity,
     llm_selected |-> TRUE]

\* Variant: the handler lets the exception through.
LLMCatch_reraise(exc) == Raised(exc, NoHit)

\* except Exception as e: return {"error": f"Error processing LLM response: {str(e)}"}
LLMCatch(exc) ==
    Returned([error |-> <<"Error processing LLM response: ", exc>>], NoHit)

-----------------------------------------------------------------------------
(* _find_meme_with_similarity                                                  *)

\* if not results or not results['ids'] or len(results['ids']) == 0
NoResults(results) == Len(results.ids) = 0

SimilarityFromResults(df, results) ==
    IF NoResults(results) THEN Returned(NoMatchResult, NoHit)
    ELSE IF Len(results.ids[1]) = 0 THEN Raised("IndexError", NoHit)
    ELSE LET hit  == results.ids[1][1]
             idx  == MemeIdOrdinal(hit)
             meme == Iloc(df, idx)
         IN IF ~meme.ok THEN Raised("IndexError", hit)
            ELSE Returned(SimilarityResult(meme.row, results.distances[1][1]), hit)

\* Every way the call can end: the embedding model or the index backend may
\* fail (nothing in the method catches), else the first hit is mapped to a row.
find_meme_with_similarity(df, db, context, top_k) ==
    {Raised("EmbeddingError", NoHit), Raised("IndexBackendError", NoHit)}
    \cup { SimilarityFromResults(df, r) : r \in QueryResults(db, Encode(context), top_k) }

-----------------------------------------------------------------------------
(* _find_meme_with_llm                                                         *)

ReplyChars == {"0", "1", "2", "x"}

ReplyTexts == UNION { [1..n -> ReplyChars] : n \in 0..MaxReplyLen }

\* What the chat-completion call does: answers with a text, or fails.
LLMResponses ==
    { [kind |-> "reply", text |-> t] : t \in ReplyTexts }
    \cup { [kind |-> "fault", text |-> <<>>] }

NoCall == [kind |-> "nocall", text |-> <<>>]

\* Variant: numbers[0].
LastNumber_first(numbers) == numbers[1]

\* numbers[-1]
LastNumber(numbers) == numbers[Len(numbers)]

\* Variant: the lower bound is not checked.
IndexValid_upperOnly(meme_idx, n) == ~(meme_idx >= n)

\* not (meme_idx < 0 or meme_idx >= len(self.meme_df))
IndexValid(meme_idx, n) == ~(meme_idx < 0 \/ meme_idx >= n)

LLMFromReply(df, context, text) ==
    LET numbers == findall_digits(text)
    IN IF Len(numbers) = 0 THEN {Returned(NoMatchResult, NoHit)}
       ELSE LET meme_idx == int(LastNumber(numbers)) - 1
            IN IF ~IndexValid(meme_idx, Len(df)) THEN {Returned(NoMatchResult, NoHit)}
               ELSE LET meme == Iloc(df, meme_idx)
                    IN IF ~meme.ok THEN {LLMCatch("IndexError")}
                       ELSE LET d == IF notna(meme.row.description)
                                     THEN meme.row.description.s ELSE ""
                            IN { Returned(LLMResult(meme.row,
                                            Cosine(Encode(context), Encode(d))), NoHit),
                                 LLMCatch("EmbeddingError") }

\* Every way the call can end. Without a client the attribute lookup
\* self.client fails inside the try block.
find_meme_with_llm(df, client, context, llm) ==
    IF ~client THEN {LLMCatch("AttributeError")}
    ELSE IF llm.kind = "fault" THEN {LLMCatch("TransportError")}
    ELSE LLMFromReply(df, context, llm.text)

-----------------------------------------------------------------------------
(* The state machine                                                           *)

NoCallYet ==
    [op |-> "none", context |-> "", top_k |-> 0, llm |-> NoCall,
     outcome |-> Raised("", NoHit)]

Init ==
    /\ chroma_db = <<>>
    /\ meme_df = <<>>
    /\ use_llm = FALSE
    /\ has_client = FALSE
    /\ pc = "down"
    /\ last = NoCallYet

\* Variant: the collection is rebuilt on every start.
ShouldPopulate_always(db) == count(db) >= 0

\* if self.collection.count() == 0
ShouldPopulate(db) == count(db) = 0

\* MemeFinder.__init__ on a catalogue file, with or without a token.
\* ok = FALSE: the embedding or index backend fails while populating (for an
\* empty catalogue, collection.add may refuse the empty lists); the
\* constructor raises and no finder exists.
Start(catalogue, llm_mode, token, ok) ==
    /\ pc = "down"
    /\ IF ShouldPopulate(chroma_db)
       THEN IF ok
            THEN /\ meme_df' = FillnaDescription(catalogue)
                 /\ chroma_db' = CollectionRows(FillnaDescription(catalogue))
                 /\ pc' = "ready"
            ELSE /\ meme_df' = <<>>
                 /\ chroma_db' = chroma_db
                 /\ pc' = "raised"
       ELSE /\ ok
            /\ meme_df' = catalogue
            /\ chroma_db' = chroma_db
            /\ pc' = "ready"
    /\ use_llm' = (pc' = "ready" /\ llm_mode)
    /\ has_client' = (pc' = "ready" /\ llm_mode /\ token)
    /\ last' = [NoCallYet EXCEPT !.op = "init",
                   !.outcome = IF pc' = "ready" THEN Returned([ready |-> TRUE], NoHit)
                               ELSE Raised("InitError", NoHit)]

\* find_relevant_meme(context, top_k), called from the demo loop. top_k is
\* read on the similarity path only; the remote model is called (and answers
\* or fails) only when a client exists.
FindRelevantMeme(context, top_k, llm) ==
    /\ pc = "ready"
    /\ \E o \in (IF use_llm
                 THEN find_meme_with_llm(meme_df, has_client, context, llm)
                 ELSE find_meme_with_similarity(meme_df, chroma_db, context, top_k)) :
          last' = [op |-> IF use_llm THEN "llm" ELSE "similarity",
                   context |-> context, top_k |-> top_k, llm |-> llm, outcome |-> o]
    /\ pc' = IF last'.outcome.kind = "returned" THEN "returned" ELSE "raised"
    /\ UNCHANGED <<chroma_db, meme_df, use_llm, has_client>>

\* The loop prints the result and asks for the next text.
PrintResult ==
    /\ pc = "returned"
    /\ pc' = "ready"
    /\ last' = NoCallYet
    /\ UNCHANGED <<chroma_db, meme_df, use_llm, has_client>>

\* 'quit' at the prompt: the process ends; the collection stays on disk.
Quit ==
    /\ pc = "ready"
    /\ pc' = "down"
    /\ meme_df' = <<>>
    /\ use_llm' = FALSE
    /\ has_client' = FALSE
    /\ last' = NoCallYet
    /\ UNCHANGED chroma_db

\* An exception reaches the outer handler of __main__: the process ends.
Crash ==
    /\ pc = "raised"
    /\ pc' = "down"
    /\ meme_df' = <<>>
    /\ use_llm' = FALSE
    /\ has_client' = FALSE
    /\ last' = NoCallYet
    /\ UNCHANGED chroma_db

\* A process is started on whatever catalogue file is on disk.
StartProcess ==
    \E c \in Catalogues, m \in BOOLEAN, t \in BOOLEAN, ok \in BOOLEAN : Start(c, m, t, ok)

\* The loop reads a text and calls the finder; the remote model and the
\* backends answer.
AskForMeme ==
    \E q \in Texts :
       \E k \in (IF use_llm THEN {1} ELSE 1..MaxTopK) :
          \E r \in (IF use_llm /\ has_client THEN LLMResponses ELSE {NoCall}) :
             FindRelevantMeme(q, k, r)

Next ==
    \/ StartProcess
    \/ AskForMeme
    \/ PrintResult
    \/ Quit
    \/ Crash

Spec == Init /\ [][Next]_vars

-----------------------------------------------------------------------------
(* Vocabulary of the properties                                                *)

N == Len(meme_df)

Outcome == last.outcome

Result == last.outcome.result

DidReturn == last.outcome.kind = "returned"

HasKey(r, k) == k \in DOMAIN r

LLMCalled == last.op = "llm"

SimilarityCalled == last.op = "similarity"

GotReply == LLMCalled /\ last.llm.kind = "reply"

NoMatch == [error |-> <<"No matching memes found">>]

IsLLMError(r) ==
    /\ DOMAIN r = {"error"}
    /\ Len(r.error) = 2
    /\ r.error[1] = "Error processing LLM response: "

BackendFault == last.outcome.exc \in {"EmbeddingError", "IndexBackendError"}

\* The last run of digits of a text, found from its end: empty when the text
\* holds no digit.
LastDigitRun(text) ==
    LET ends == { j \in 1..Len(text) : IsDigit(text[j]) }
    IN IF ends = {} THEN <<>>
       ELSE LET j == CHOOSE x \in ends : \A y \in ends : y <= x
                i == CHOOSE x \in 1..j :
                        /\ \A y \in x..j : IsDigit(text[y])
                        /\ (x = 1 \/ ~IsDigit(text[x - 1]))
            IN SubSeq(text, i, j)

RECURSIVE Pow10(_)
Pow10(n) == IF n = 0 THEN 1 ELSE 10 * Pow10(n - 1)

\* The number a run of decimal digits denotes, most significant digit first.
RECURSIVE DecimalValue(_)
DecimalValue(ds) ==
    IF Len(ds) = 0 THEN 0
    ELSE DigitVal(ds[1]) * Pow10(Len(ds) - 1) + DecimalValue(Tail(ds))

HasInteger == GotReply /\ LastDigitRun(last.llm.text) # <<>>

ParsedInteger == DecimalValue(LastDigitRun(last.llm.text))

-----------------------------------------------------------------------------
(* C1: in a catalogue of N rows, when the last run of digits of the LLM reply  *)
(* denotes k with k <= 0 or k > N, _find_meme_with_llm returns exactly         *)
(* {error: "No matching memes found"}; a reply without digits gives the same;  *)
(* a filename is returned only when 1 <= k <= N.                               *)
C1_LLMRejectsOutOfRange ==
    GotReply =>
        LET run == LastDigitRun(last.llm.text)
            k   == DecimalValue(run)
        IN /\ DidReturn
           /\ (run = <<>> => Result = NoMatch)
           /\ (run # <<>> /\ (k <= 0 \/ k > N) => Result = NoMatch)
           /\ (HasKey(Result, "filename") => run # <<>> /\ 1 <= k /\ k <= N)

\* A non-empty catalogue and a reply whose integer is N + 1 or more, rejected.
C1_Witness ==
    /\ HasInteger
    /\ N >= 1
    /\ ParsedInteger > N
    /\ Result = NoMatch

(* C2: when the reply holds several integers, the entry is chosen by the last  *)
(* one alone: with the last integer k in 1..N the result is row k-1 (0-based)  *)
(* of the catalogue, its filename and description, with llm_selected = TRUE;   *)
(* the only other ending is the error of a failed diagnostic embedding.        *)
C2_LastIntegerSelects ==
    GotReply =>
        LET run == LastDigitRun(last.llm.text)
            k   == DecimalValue(run)
        IN /\ (run # <<>> /\ 1 <= k /\ k <= N) =>
                 /\ DidReturn
                 /\ \/ /\ DOMAIN Result =
                             {"filename", "description", "similarity_score", "llm_selected"}
                       /\ Result.filename = meme_df[k].filename
                       /\ Result.description = meme_df[k].description
                       /\ Result.llm_selected = TRUE
                    \/ Result = [error |-> <<"Error processing LLM response: ",
                                             "EmbeddingError">>]
           /\ (DidReturn /\ HasKey(Result, "filename")) =>
                 /\ run # <<>>
                 /\ 1 <= k /\ k <= N
                 /\ Result.filename = meme_df[k].filename

\* A reply with two different integers, both in range: the second one wins.
C2_Witness ==
    /\ GotReply
    /\ Len(findall_digits(last.llm.text)) >= 2
    /\ int(findall_digits(last.llm.text)[1]) \in 1..N
    /\ int(findall_digits(last.llm.text)[1]) # ParsedInteger
    /\ HasKey(Result, "filename")
    /\ Result.filename = meme_df[ParsedInteger].filename
    /\ Result.filename # meme_df[int(findall_digits(last.llm.text)[1])].filename

(* C4: a fault of the remote LLM call, the missing client of a finder built    *)
(* without a token included, ends as the returned result                       *)
(* {error: "Error processing LLM response: <detail>"}: the call does not raise *)
(* and the result has no filename.                                             *)
C4_LLMFaultIsCaught ==
    (LLMCalled /\ last.llm.kind \in {"fault", "nocall"}) =>
        /\ DidReturn
        /\ pc = "returned"
        /\ IsLLMError(Result)
        /\ ~HasKey(Result, "filename")

\* A finder in LLM mode without a client was asked, and answered with the error.
C4_Witness ==
    /\ LLMCalled
    /\ ~has_client
    /\ last.llm.kind = "nocall"
    /\ Result = [error |-> <<"Error processing LLM response: ", "AttributeError">>]

(* C6: every result find_relevant_meme returns has one of two shapes: filename,*)
(* description and similarity_score without error, or error without filename,  *)
(* description and similarity_score.                                           *)
C6_ExactlyOneShape ==
    ((LLMCalled \/ SimilarityCalled) /\ DidReturn) =>
        \/ /\ {"filename", "description", "similarity_score"} \subseteq DOMAIN Result
           /\ ~HasKey(Result, "error")
        \/ /\ HasKey(Result, "error")
           /\ DOMAIN Result \cap {"filename", "description", "similarity_score"} = {}

\* A returned failure on the LLM path with the catalogue non-empty.
C6_Witness ==
    /\ LLMCalled
    /\ DidReturn
    /\ N >= 1
    /\ Result = NoMatch

(* C7: the collection is written only by a start that finds it empty; a start  *)
(* that finds it non-empty leaves it as it is, whatever the catalogue; a       *)
(* find_relevant_meme call changes neither the collection nor the catalogue.   *)
C7_IndexWrittenOnlyWhenEmpty ==
    [][ /\ (chroma_db' # chroma_db =>
               pc = "down" /\ count(chroma_db) = 0 /\ pc' = "ready")
        /\ (pc = "down" /\ count(chroma_db) > 0 => chroma_db' = chroma_db)
        /\ (pc = "ready" /\ pc' \in {"returned", "raised"} =>
               chroma_db' = chroma_db /\ meme_df' = meme_df) ]_vars

\* A finder answered a query on a collection that was built from another
\* catalogue than the one it loaded.
C7_Witness ==
    /\ pc = "returned"
    /\ count(chroma_db) > 0
    /\ chroma_db # CollectionRows(FillnaDescription(meme_df))

-----------------------------------------------------------------------------
\* The loaded catalogue is the one the collection was populated from.
IndexBuiltFromCatalogue == chroma_db = CollectionRows(FillnaDescription(meme_df))

\* The collection rows whose embedding lies at cosine distance zero from row i's.
SameEmbedding(i) ==
    { j \in 1..Len(chroma_db) :
        CosineDistance(chroma_db[i].embedding, chroma_db[j].embedding).num = 0 }

\* A similarity query equal to the document of collection row i, answered
\* without a fault of the embedding model or of the index backend.
RoundTripQuery(i) ==
    /\ SimilarityCalled
    /\ IndexBuiltFromCatalogue
    /\ ~BackendFault
    /\ last.context = chroma_db[i].document

C3_EmptyCatalogueNoMatch ==
    ((LLMCalled \/ SimilarityCalled) /\ N = 0 /\ ~BackendFault) =>
        /\ DidReturn
        /\ Result = NoMatch

(* C5: on the similarity path a failure of the embedding backend or of the     *)
(* index backend during find_relevant_meme comes back as a returned result     *)
(* with an error field and no filename; it is not raised to the caller.        *)
C5_SimilarityFaultIsCaught ==
    (SimilarityCalled /\ BackendFault) =>
        /\ DidReturn
        /\ HasKey(Result, "error")
        /\ ~HasKey(Result, "filename")

(* C9: on every start, cold or warm, every successful result of either matcher *)
(* carries a description that is a string, never a null/NaN cell.              *)
C9_DescriptionIsString ==
    ((LLMCalled \/ SimilarityCalled) /\ DidReturn /\ HasKey(Result, "filename")) =>
        notna(Result.description)

(* C10: on the similarity path the ordinal decoded from the hit id meme_<n>    *)
(* addresses a row of the loaded catalogue, and the filename returned from     *)
(* that row is the filename stored as the hit's metadata in the collection,    *)
(* after any sequence of starts.                                               *)
C10_HitAddressesItsRow ==
    (SimilarityCalled /\ Outcome.hit # NoHit) =>
        /\ MemeIdOrdinal(Outcome.hit) < N
        /\ DidReturn
        /\ \A j \in 1..Len(chroma_db) :
              chroma_db[j].id = Outcome.hit =>
                  Result.filename = chroma_db[j].metadata.filename

=============================================================================
